---- MODULE Spec2Model ----
(***************************************************************************)
(* User registration and credential lifecycle of the Information Systems   *)
(* department site.  The repository holds two implementations of the same  *)
(* lifecycle over the same `users` table:                                  *)
(*   - the Express/SQLite back end (src/backend/routes.js, db.js), and     *)
(*   - the in-browser data module (src/scripts/data.js, userService).      *)
(* The variable `impl` fixes which of the two a behaviour runs; `users` is *)
(* its users table and `resp` the result of the last operation.  `issued`  *)
(* is a history variable: issued[id] is the passcode handed out by the     *)
(* latest successful approval of account id, NULL once the owner changed   *)
(* it (or when nothing was handed out).  `life` is the position of the     *)
(* lifecycle scenario (SpecLifecycle) and `calls` the two concurrent       *)
(* approval requests of SpecApproveRace; `signups` the concurrent sign-up  *)
(* requests of SpecSignupRace; `boot` a start of the server (SpecBoot);    *)
(* `session` the browser's localStorage as the login pages leave it        *)
(* (SpecLoginPage); all are idle under Spec.                               *)
(*                                                                         *)
(* Strings are sequences of one-character strings, so that toLowerCase,    *)
(* the registration-number regular expressions and === are computed.       *)
(* The empty sequence is the empty string (also a missing body field);     *)
(* NULL is the SQL NULL.                                                   *)
(***************************************************************************)
EXTENDS Naturals, Sequences, FiniteSets, TLC

VARIABLES impl, users, resp, issued, life, calls, signups, boot, session

vars == <<impl, users, resp, issued, life, calls, signups, boot, session>>

\* The variables of the scenario specifications, idle under Spec
aux == <<life, calls, signups, boot, session>>

\* The scenario variables a step of the lifecycle scenario, of the approval
\* race and of the sign-up race leaves alone
exceptLife == <<calls, signups, boot, session>>

exceptCalls == <<life, signups, boot, session>>

exceptSignups == <<life, calls, boot, session>>

\* The scenario variables a step of the server start-up leaves alone
exceptBoot == <<life, calls, signups, session>>

\* The scenario variables a step of the login pages leaves alone
exceptSession == <<life, calls, signups, boot>>

\* ------------------------------------------------------------------ bounds

\* Most rows the users table holds in the model (the seeded admin included).
MaxUsers == 3

\* The approval requests in flight together on one account.
MaxCalls == 2

\* ----------------------------------------------------------------- strings

NULL == <<"NULL">>

UpperAlpha ==
    <<"A","B","C","D","E","F","G","H","I","J","K","L","M",
      "N","O","P","Q","R","S","T","U","V","W","X","Y","Z">>

LowerAlpha ==
    <<"a","b","c","d","e","f","g","h","i","j","k","l","m",
      "n","o","p","q","r","s","t","u","v","w","x","y","z">>

Digits == {"0","1","2","3","4","5","6","7","8","9"}

IsDigit(c) == c \in Digits

UpperSet == {UpperAlpha[i] : i \in 1..26}

LowerSet == {LowerAlpha[i] : i \in 1..26}

IsUpper(c) == c \in UpperSet

IsLower(c) == c \in LowerSet

\* [a-z] under the /i flag
IsLetter(c) == IsUpper(c) \/ IsLower(c)

LowerOf == [c \in UpperSet |-> LowerAlpha[CHOOSE i \in 1..26 : UpperAlpha[i] = c]]

UpperOf == [c \in LowerSet |-> UpperAlpha[CHOOSE i \in 1..26 : LowerAlpha[i] = c]]

ToLowerChar(c) == IF IsUpper(c) THEN LowerOf[c] ELSE c

ToUpperChar(c) == IF IsLower(c) THEN UpperOf[c] ELSE c

\* String.prototype.toLowerCase
ToLowerCase(s) == IF s = <<>> THEN <<>> ELSE [i \in 1..Len(s) |-> ToLowerChar(s[i])]

\* String.prototype.toUpperCase
ToUpperCase(s) == IF s = <<>> THEN <<>> ELSE [i \in 1..Len(s) |-> ToUpperChar(s[i])]

\* /^\d{2}\/[a-z]{minL,maxL}\/[a-z]{minL,maxL}\/\d{minD,maxD}$/i
MatchRegPattern(s, minL, maxL, minD, maxD) ==
    \E a \in minL..maxL, b \in minL..maxL, d \in minD..maxD :
        /\ Len(s) = 2 + 1 + a + 1 + b + 1 + d
        /\ IsDigit(s[1]) /\ IsDigit(s[2])
        /\ s[3] = "/"
        /\ \A i \in 4..(3 + a) : IsLetter(s[i])
        /\ s[4 + a] = "/"
        /\ \A i \in (5 + a)..(4 + a + b) : IsLetter(s[i])
        /\ s[5 + a + b] = "/"
        /\ \A i \in (6 + a + b)..(5 + a + b + d) : IsDigit(s[i])

\* validateRegNumber without the /i flag: lower-case letters only
validateRegNumber_CaseSensitive(regNumber) ==
    /\ MatchRegPattern(regNumber, 2, 4, 3, 3)
    /\ \A i \in 1..Len(regNumber) : ~IsUpper(regNumber[i])

\* userService.validateRegNumber: /^\d{2}\/[a-z]{2,4}\/[a-z]{2,4}\/\d{3}$/i
validateRegNumber(regNumber) == MatchRegPattern(regNumber, 2, 4, 3, 3)

\* bcrypt.hash: a salted one-way hash, never equal to its plaintext
BcryptHash(p) == <<"$">> \o p

\* bcrypt.compare
BcryptCompare(p, h) == h = BcryptHash(p)

\* ------------------------------------------------------------ input values

Jane == <<"J","a","n","e">>

\* "24/is/co/346"
RegLower == <<"2","4","/","i","s","/","c","o","/","3","4","6">>

\* "24/IS/CO/346"
RegUpper == <<"2","4","/","I","S","/","C","O","/","3","4","6">>

\* "24/abc/1"
RegShort == <<"2","4","/","a","b","c","/","1">>

\* "24/is/co/3461"
RegFour == <<"2","4","/","i","s","/","c","o","/","3","4","6","1">>

\* "j@x.ng"
MailLower == <<"j","@","x",".","n","g">>

\* "J@x.ng"
MailUpper == <<"J","@","x",".","n","g">>

\* "admin123"
Admin123 == <<"a","d","m","i","n","1","2","3">>

\* "24/is/ad/001", the registration number seeded by the back end
BackendAdminReg == <<"2","4","/","i","s","/","a","d","/","0","0","1">>

\* "admin@informationsystems.uniuyo.edu.ng", abbreviated
BackendAdminMail == <<"a","@","i","s">>

\* "admin/001", the registration number seeded by the data module
ClientAdminReg == <<"a","d","m","i","n","/","0","0","1">>

\* "admin@uniuyo.edu.ng", abbreviated
ClientAdminMail == <<"a","@","u">>

\* "newpw1"
NewPw == <<"n","e","w","p","w","1">>

\* The least length the forms accept for a passcode (handlePasscodeChange:
\* newPasscode.length < 6)
MinPasscodeLength == 6

\* MAX_PASSCODE_LENGTH of the admin login page
MaxPasscodeLength == 50

\* "abc"
ShortPw == <<"a","b","c">>

\* Math.random().toString(36) for Math.random() = 0
RandomZero == <<"0">>

\* Math.random().toString(36) for a typical draw: "0.k9xq2flp7a"
RandomTypical == <<"0",".","k","9","x","q","2","f","l","p","7","a">>

RandomDraws == {RandomZero, RandomTypical}

Names == {<<>>, Jane}

\* The registration numbers submitted at sign-up: to the back end, which stores
\* any non-empty string, and to the data module
BackendRegInputs == {<<>>, RegLower, RegUpper, RegShort}

ClientRegInputs == {<<>>, RegLower, RegUpper, RegShort, RegFour}

RegInputs == BackendRegInputs \cup ClientRegInputs

MailInputs == {<<>>, MailLower, MailUpper}

\* ------------------------------------------------------------- users table

Row(id, name, regNumber, email, passcode, role, status) ==
    [id |-> id, name |-> name, regNumber |-> regNumber, email |-> email,
     passcode |-> passcode, role |-> role, status |-> status]

\* A table without UNIQUE constraints
UniqueViolation_NoConstraint(rows, regNumber, email) == FALSE

\* regNumber TEXT UNIQUE NOT NULL, email TEXT UNIQUE NOT NULL (BINARY collation)
UniqueViolation(rows, regNumber, email) ==
    \E i \in 1..Len(rows) :
        rows[i].regNumber = regNumber \/ rows[i].email = email

\* INSERT INTO users: id INTEGER PRIMARY KEY AUTOINCREMENT
InsertUser(rows, name, regNumber, email, passcode, role, status) ==
    Append(rows, Row(Len(rows) + 1, name, regNumber, email, passcode, role, status))

\* seedDefaultData of the back end: the admin row it inserts when none exists
BackendAdminRow(id) ==
    Row(id, <<"S">>, BackendAdminReg, BackendAdminMail,
        BcryptHash(Admin123), "admin", "active")

\* seedDatabase of the data module: the admin row it inserts when none exists
ClientAdminRow(id) ==
    Row(id, <<"A">>, ClientAdminReg, ClientAdminMail, Admin123, "admin", "approved")

\* The outcome of an operation: the HTTP status and error/message of a route, or
\* the settled promise of a userService call (code 1 resolved, 0 rejected).
\* id, passcode: the account concerned and the passcode handed out;
\* tokenRole: the role claim of the JWT issued; userRole: the role of the user
\* object returned; db: whether the operation executed a statement on the store;
\* reg: the registration number a login request named; old, new: the current
\* and the new passcode a successful change of passcode was asked with; list:
\* the ids of the accounts a listing returned.
Response(op, code, msg) ==
    [op |-> op, code |-> code, msg |-> msg, id |-> 0, passcode |-> NULL,
     tokenRole |-> "none", userRole |-> "none", db |-> FALSE, reg |-> <<>>,
     old |-> NULL, new |-> NULL, list |-> {}]

\* The tables createTables creates; there is no `admins` table.
Tables == {"users", "materials", "events", "news", "achievements"}

\* ---------------------------------------------------------- bearer tokens

\* The Authorization header of a request: absent, not verifiable, or a JWT
\* signed with JWT_SECRET carrying {id, role}.
Bearer(kind, id, role) == [kind |-> kind, id |-> id, role |-> role]

NoToken == Bearer("none", 0, "none")

BadToken == Bearer("bad", 0, "none")

AdminToken == Bearer("jwt", 1, "admin")

Bearers ==
    {NoToken, BadToken, AdminToken} \cup {Bearer("jwt", i, "student") : i \in 2..MaxUsers}

\* The bearers of the approval requests: one student token shows the role check
ApproveBearers == {NoToken, BadToken, AdminToken, Bearer("jwt", 2, "student")}

\* authenticateToken: 0 when next() is called, else the status it answers
authenticateToken(bearer) ==
    IF bearer.kind = "none" THEN 401
    ELSE IF bearer.kind = "bad" THEN 403
    ELSE 0

AuthError(code) ==
    IF code = 401 THEN "Access token required" ELSE "Invalid or expired token"

\* ------------------------------------------------------------- passcodes

\* String.prototype.substring(from, to) with 0 <= from <= to
Substring(s, from, to) ==
    IF from >= Len(s) THEN <<>>
    ELSE SubSeq(s, from + 1, IF to > Len(s) THEN Len(s) ELSE to)

\* String.prototype.slice(-n)
SliceLast(s, n) == IF Len(s) <= n THEN s ELSE SubSeq(s, Len(s) - n + 1, Len(s))

\* routes.js generatePasscode: Math.random().toString(36).substring(2, 8).toUpperCase()
generatePasscode(random) == ToUpperCase(Substring(random, 2, 8))

\* data.js approveSignup: Math.random().toString(36).slice(-8)
clientPasscode(random) == SliceLast(random, 8)

\* The passcodes tried at login and as current passcode
BackendCandidates == {<<>>, Admin123, NewPw} \cup {generatePasscode(r) : r \in RandomDraws}

ClientCandidates == {<<>>, Admin123, NewPw} \cup {clientPasscode(r) : r \in RandomDraws}

NewPasscodes == {<<>>, ShortPw, NewPw}

BackendLoginRegs == {<<>>, RegLower, RegUpper, BackendAdminReg}

ClientLoginRegs == {<<>>, RegLower, RegUpper, ClientAdminReg}

\* ------------------------------------------------------------------- Init

NoneIssued == [i \in 1..MaxUsers |-> NULL]

\* The lifecycle scenario before its first step: no student account (sid), no
\* route on which the admin was refused (tried), no credential obtained by the
\* admin, no passcode received by the student
LifeStart ==
    [pc |-> "start", sid |-> 0, tried |-> {}, token |-> NoToken, passcode |-> NULL]

\* The approval requests that can be in flight together
Callers == 1..MaxCalls

\* An approval request not yet sent
CallIdle == [pc |-> "idle", code |-> 0, passcode |-> NULL]

NoCalls == [c \in Callers |-> CallIdle]

\* A sign-up request of the sign-up race: its position, the registration number
\* and the address of its body, and the status it answered
SignupIdle == [pc |-> "idle", reg |-> <<>>, email |-> <<>>, code |-> 0]

NoSignups == [c \in Callers |-> SignupIdle]

\* The sample rows seedSampleData inserts
SampleMaterials == 3

SampleEvents == 2

\* A start of the server: stage is the statement(s) of initDatabase in flight
\* ("closed" before the database is opened, "idle" when none is in flight),
\* waiting the number of callbacks of that stage still to come, done the number
\* of them that reported success, promise the state of the promise initDatabase
\* returned, fresh whether the database file was created by this start, logged
\* whether the error of a sample insert was logged, server what startServer did
\* after its await
BootStart ==
    [stage |-> "closed", waiting |-> 0, done |-> 0, promise |-> "pending",
     fresh |-> FALSE, logged |-> FALSE, server |-> "starting"]

\* localStorage before any login: page is the login page last submitted, code
\* the status of the answer to that submit (0 when no request was sent), served
\* the token of that answer and token the item 'token' (NoToken when absent)
NoSession == [page |-> "none", code |-> 0, served |-> NoToken, token |-> NoToken]

Init ==
    /\ impl \in {"backend", "client"}
    /\ users = IF impl = "backend" THEN <<BackendAdminRow(1)>> ELSE <<ClientAdminRow(1)>>
    /\ resp = Response("init", 0, "ok")
    /\ issued = NoneIssued
    /\ life = LifeStart
    /\ calls = NoCalls
    /\ signups = NoSignups
    /\ boot = BootStart
    /\ session = NoSession

\* A seeding that inserts the admin row without looking for one
InitDatabase_AlwaysSeed ==
    /\ impl = "backend"
    /\ users' = InsertUser(users, <<"S">>, BackendAdminReg, BackendAdminMail,
                           BcryptHash(Admin123), "admin", "active")
    /\ resp' = [Response("init", 0, "ok") EXCEPT !.db = TRUE]
    /\ UNCHANGED <<impl, issued>>

\* initDatabase of db.js run again on the same database file: createTables is
\* CREATE TABLE IF NOT EXISTS, seedDefaultData inserts the admin when no row has
\* role admin.
InitDatabase ==
    /\ impl = "backend"
    /\ users' = IF \E i \in 1..Len(users) : users[i].role = "admin"
                THEN users
                ELSE InsertUser(users, <<"S">>, BackendAdminReg, BackendAdminMail,
                                BcryptHash(Admin123), "admin", "active")
    /\ resp' = [Response("init", 0, "ok") EXCEPT !.db = TRUE]
    /\ UNCHANGED <<impl, issued>>

\* initDatabase of data.js run again (a page load): db = new SQL.Database() is an
\* empty in-memory database, then createTables and seedDatabase.
initDatabase ==
    /\ impl = "client"
    /\ users' = <<ClientAdminRow(1)>>
    /\ resp' = [Response("init", 1, "ok") EXCEPT !.db = TRUE]
    /\ issued' = NoneIssued
    /\ UNCHANGED impl

\* ---------------------------------------------------------------- sign-up

\* router.post('/signup')
Signup(name, regNumber, email) ==
    /\ impl = "backend"
    /\ UNCHANGED <<impl, issued>>
    /\ IF name = <<>> \/ regNumber = <<>> \/ email = <<>>
       THEN /\ resp' = Response("signup", 400, "All fields are required")
            /\ UNCHANGED users
       ELSE IF \E i \in 1..Len(users) : users[i].regNumber = regNumber
       THEN /\ resp' = [Response("signup", 409, "Registration number already exists")
                           EXCEPT !.db = TRUE]
            /\ UNCHANGED users
       ELSE IF UniqueViolation(users, regNumber, email)
       THEN /\ resp' = [Response("signup", 500, "Internal server error")
                           EXCEPT !.db = TRUE]
            /\ UNCHANGED users
       ELSE /\ Len(users) < MaxUsers
            /\ users' = InsertUser(users, name, regNumber, email, NULL, "student", "pending")
            /\ resp' = [Response("signup", 201, "Registration submitted successfully")
                           EXCEPT !.db = TRUE, !.id = Len(users) + 1]

\* userService.signUp
signUp(name, regNumber, email) ==
    /\ impl = "client"
    /\ UNCHANGED <<impl, issued>>
    /\ IF ~validateRegNumber(regNumber)
       THEN /\ resp' = Response("signup", 0, "Invalid registration number format")
            /\ UNCHANGED users
       ELSE IF UniqueViolation(users, ToLowerCase(regNumber), ToLowerCase(email))
       THEN /\ resp' = [Response("signup", 0, "Registration number or email already exists")
                           EXCEPT !.db = TRUE]
            /\ UNCHANGED users
       ELSE /\ Len(users) < MaxUsers
            /\ users' = InsertUser(users, ToLowerCase(name), ToLowerCase(regNumber),
                                   ToLowerCase(email), NULL, "student", "pending")
            /\ resp' = [Response("signup", 1, "Registration submitted for approval")
                           EXCEPT !.db = TRUE, !.id = Len(users) + 1]

\* --------------------------------------------------------------- approval

\* The UPDATE of an approval that sets the status and forgets the passcode
UpdateApproved_StatusOnly(rows, userId, status, passcode) ==
    [i \in 1..Len(rows) |->
        IF rows[i].id = userId THEN [rows[i] EXCEPT !.status = status] ELSE rows[i]]

\* UPDATE users SET status = ?, passcode = ? WHERE id = ?
UpdateApproved(rows, userId, status, passcode) ==
    [i \in 1..Len(rows) |->
        IF rows[i].id = userId
        THEN [rows[i] EXCEPT !.status = status, !.passcode = passcode]
        ELSE rows[i]]

\* SELECT ... FROM users WHERE status = 'pending': the ids of the rows returned
SelectPending(rows) == {rows[i].id : i \in {j \in 1..Len(rows) : rows[j].status = "pending"}}

\* A listing that checks the token and not the role it carries
PendingRegistrations_NoRoleCheck(bearer) ==
    /\ impl = "backend"
    /\ UNCHANGED <<impl, users, issued>>
    /\ IF authenticateToken(bearer) # 0
       THEN resp' = Response("list", authenticateToken(bearer),
                             AuthError(authenticateToken(bearer)))
       ELSE resp' = [Response("list", 200, "ok")
                        EXCEPT !.db = TRUE, !.list = SelectPending(users)]

\* router.get('/pending-registrations')
PendingRegistrations(bearer) ==
    /\ impl = "backend"
    /\ UNCHANGED <<impl, users, issued>>
    /\ IF authenticateToken(bearer) # 0
       THEN resp' = Response("list", authenticateToken(bearer),
                             AuthError(authenticateToken(bearer)))
       ELSE IF bearer.role # "admin"
       THEN resp' = Response("list", 403, "Admin access required")
       ELSE resp' = [Response("list", 200, "ok")
                        EXCEPT !.db = TRUE, !.list = SelectPending(users)]

\* userService.getPendingSignups
getPendingSignups ==
    /\ impl = "client"
    /\ UNCHANGED <<impl, users, issued>>
    /\ resp' = [Response("list", 1, "ok") EXCEPT !.db = TRUE, !.list = SelectPending(users)]

\* An approval that undoes its UPDATE when the mail cannot be sent
ConfirmRegistration_Rollback(bearer, userId, random, mailOk) ==
    /\ impl = "backend"
    /\ UNCHANGED impl
    /\ IF authenticateToken(bearer) # 0
       THEN /\ resp' = Response("approve", authenticateToken(bearer),
                                AuthError(authenticateToken(bearer)))
            /\ UNCHANGED <<users, issued>>
       ELSE IF bearer.role # "admin"
       THEN /\ resp' = Response("approve", 403, "Admin access required")
            /\ UNCHANGED <<users, issued>>
       ELSE IF ~\E i \in 1..Len(users) : users[i].id = userId /\ users[i].status = "pending"
       THEN /\ resp' = [Response("approve", 404, "Pending registration not found")
                           EXCEPT !.db = TRUE]
            /\ UNCHANGED <<users, issued>>
       ELSE IF mailOk
       THEN /\ users' = UpdateApproved(users, userId, "confirmed", generatePasscode(random))
            /\ resp' = [Response("approve", 200,
                            "Registration confirmed and passcode sent via email")
                           EXCEPT !.db = TRUE, !.id = userId,
                                  !.passcode = generatePasscode(random)]
            /\ issued' = [issued EXCEPT ![userId] = generatePasscode(random)]
       ELSE /\ resp' = [Response("approve", 500, "Internal server error")
                           EXCEPT !.db = TRUE, !.id = userId]
            /\ UNCHANGED <<users, issued>>

\* router.post('/confirm-registration/:id'); random is the draw of Math.random,
\* mailOk whether transporter.sendMail resolves
ConfirmRegistration(bearer, userId, random, mailOk) ==
    /\ impl = "backend"
    /\ UNCHANGED impl
    /\ IF authenticateToken(bearer) # 0
       THEN /\ resp' = Response("approve", authenticateToken(bearer),
                                AuthError(authenticateToken(bearer)))
            /\ UNCHANGED <<users, issued>>
       ELSE IF bearer.role # "admin"
       THEN /\ resp' = Response("approve", 403, "Admin access required")
            /\ UNCHANGED <<users, issued>>
       ELSE IF ~\E i \in 1..Len(users) : users[i].id = userId /\ users[i].status = "pending"
       THEN /\ resp' = [Response("approve", 404, "Pending registration not found")
                           EXCEPT !.db = TRUE]
            /\ UNCHANGED <<users, issued>>
       ELSE /\ users' = UpdateApproved(users, userId, "confirmed", generatePasscode(random))
            /\ IF mailOk
               THEN /\ resp' = [Response("approve", 200,
                                    "Registration confirmed and passcode sent via email")
                                   EXCEPT !.db = TRUE, !.id = userId,
                                          !.passcode = generatePasscode(random)]
                    /\ issued' = [issued EXCEPT ![userId] = generatePasscode(random)]
               ELSE /\ resp' = [Response("approve", 500, "Internal server error")
                                   EXCEPT !.db = TRUE, !.id = userId]
                    /\ UNCHANGED issued

\* The path of router.post('/confirm-registration/:id') below /api, by segments
ConfirmRoute == <<"confirm-registration", ":id">>

\* Express route matching: as many segments, each equal or a parameter
MatchesRoute(route, path) ==
    /\ Len(route) = Len(path)
    /\ \A k \in 1..Len(route) : route[k] = ":id" \/ route[k] = path[k]

\* app.use('/api/*'): the answer to a request no route of the router matched
ApiNotFound(op) ==
    /\ impl = "backend"
    /\ resp' = Response(op, 404, "API endpoint not found")
    /\ UNCHANGED <<impl, users, issued>>

\* A POST below /api/confirm-registration: the only route there is
\* '/confirm-registration/:id', with the id in req.params; the body is not read
PostConfirmRegistration(path, bearer, body, random, mailOk) ==
    IF MatchesRoute(ConfirmRoute, path)
    THEN ConfirmRegistration(bearer, path[2], random, mailOk)
    ELSE ApiNotFound("approve")

\* handleConfirmRegistration of the admin dashboard: it posts {userId} to
\* /api/confirm-registration with the stored token
handleConfirmRegistration(bearer, userId, random, mailOk) ==
    PostConfirmRegistration(<<"confirm-registration">>, bearer, [userId |-> userId],
                            random, mailOk)

\* userService.approveSignup
approveSignup(userId, random) ==
    /\ impl = "client"
    /\ UNCHANGED impl
    /\ IF \E i \in 1..Len(users) : users[i].id = userId
       THEN /\ users' = UpdateApproved(users, userId, "approved", clientPasscode(random))
            /\ resp' = [Response("approve", 1, "User approved successfully")
                           EXCEPT !.db = TRUE, !.id = userId,
                                  !.passcode = clientPasscode(random)]
            /\ issued' = [issued EXCEPT ![userId] = clientPasscode(random)]
       ELSE /\ resp' = [Response("approve", 0, "User not found") EXCEPT !.db = TRUE]
            /\ UNCHANGED <<users, issued>>

\* ------------------------------------------------------------------ login

\* A login that looks the row up by registration number alone and compares
\* neither status nor passcode
BackendLoginId_RegOnly(rows, regNumber, passcode) ==
    LET hit == {i \in 1..Len(rows) : rows[i].regNumber = regNumber}
    IN  IF hit = {} THEN 0 ELSE CHOOSE i \in hit : TRUE

\* The row SELECT * FROM users WHERE regNumber = ? AND status = 'confirmed' gives
\* (0 when none), then !user || user.passcode !== passcode
BackendLoginId(rows, regNumber, passcode) ==
    LET hit == {i \in 1..Len(rows) :
                   rows[i].regNumber = regNumber /\ rows[i].status = "confirmed"}
    IN  IF hit = {} THEN 0
        ELSE LET i == CHOOSE i \in hit : TRUE
             IN  IF rows[i].passcode # passcode THEN 0 ELSE i

\* The status router.post('/login') answers
BackendLoginCode(rows, regNumber, passcode) ==
    IF regNumber = <<>> \/ passcode = <<>> THEN 400
    ELSE IF BackendLoginId(rows, regNumber, passcode) = 0 THEN 401
    ELSE 200

\* router.post('/login')
Login(regNumber, passcode) ==
    /\ impl = "backend"
    /\ UNCHANGED <<impl, users, issued>>
    /\ resp' =
        IF BackendLoginCode(users, regNumber, passcode) = 400
        THEN [Response("login", 400, "Registration number and passcode are required")
                 EXCEPT !.reg = regNumber]
        ELSE IF BackendLoginCode(users, regNumber, passcode) = 401
        THEN [Response("login", 401, "Invalid credentials")
                 EXCEPT !.db = TRUE, !.reg = regNumber]
        ELSE [Response("login", 200, "Login successful")
                 EXCEPT !.db = TRUE,
                        !.reg = regNumber,
                        !.id = BackendLoginId(users, regNumber, passcode),
                        !.tokenRole = "student",
                        !.userRole = "undefined"]

\* The row SELECT ... FROM users WHERE regNumber = ? AND passcode = ? gives for
\* regNumber.toLowerCase() (0 when none); NULL = ? is never true
ClientLoginId(rows, regNumber, passcode) ==
    LET hit == {i \in 1..Len(rows) :
                   /\ rows[i].regNumber = ToLowerCase(regNumber)
                   /\ rows[i].passcode # NULL
                   /\ rows[i].passcode = passcode}
    IN  IF hit = {} THEN 0 ELSE CHOOSE i \in hit : TRUE

\* A login that reports the pending status of the account named before it
\* compares the passcode
ClientLoginMsg_StatusFirst(rows, regNumber, passcode) ==
    IF \E i \in 1..Len(rows) :
           rows[i].regNumber = ToLowerCase(regNumber) /\ rows[i].status # "approved"
    THEN "Your account is pending approval"
    ELSE IF ClientLoginId(rows, regNumber, passcode) = 0
    THEN "Invalid registration number or passcode"
    ELSE "ok"

\* The message userService.login rejects with, "ok" when it resolves
ClientLoginMsg(rows, regNumber, passcode) ==
    IF ClientLoginId(rows, regNumber, passcode) = 0
    THEN "Invalid registration number or passcode"
    ELSE IF rows[ClientLoginId(rows, regNumber, passcode)].status # "approved"
    THEN "Your account is pending approval"
    ELSE "ok"

\* userService.login
login(regNumber, passcode) ==
    /\ impl = "client"
    /\ UNCHANGED <<impl, users, issued>>
    /\ resp' =
        IF ClientLoginMsg(users, regNumber, passcode) # "ok"
        THEN [Response("login", 0, ClientLoginMsg(users, regNumber, passcode))
                 EXCEPT !.db = TRUE, !.reg = regNumber]
        ELSE [Response("login", 1, "ok")
                 EXCEPT !.db = TRUE,
                        !.reg = regNumber,
                        !.id = ClientLoginId(users, regNumber, passcode),
                        !.userRole = users[ClientLoginId(users, regNumber, passcode)].role]

\* router.post('/admin/login'): SELECT * FROM admins fails, no such table
AdminLogin(username, password) ==
    /\ impl = "backend"
    /\ UNCHANGED <<impl, users, issued>>
    /\ resp' =
        IF username = <<>> \/ password = <<>>
        THEN Response("adminLogin", 400, "Username and password are required")
        ELSE IF "admins" \notin Tables
        THEN [Response("adminLogin", 500, "Internal server error") EXCEPT !.db = TRUE]
        ELSE [Response("adminLogin", 401, "Invalid credentials") EXCEPT !.db = TRUE]

\* --------------------------------------------------------- change passcode

\* A change of passcode whose UPDATE writes no row
UpdatePasscode_NoRow(rows, userId, passcode) == rows

\* UPDATE users SET passcode = ? WHERE id = ?
UpdatePasscode(rows, userId, passcode) ==
    [i \in 1..Len(rows) |->
        IF rows[i].id = userId THEN [rows[i] EXCEPT !.passcode = passcode] ELSE rows[i]]

\* router.post('/change-password') with body {currentPassword, newPassword}
ChangePassword(bearer, currentPassword, newPassword) ==
    /\ impl = "backend"
    /\ UNCHANGED impl
    /\ IF authenticateToken(bearer) # 0
       THEN /\ resp' = Response("change", authenticateToken(bearer),
                                AuthError(authenticateToken(bearer)))
            /\ UNCHANGED <<users, issued>>
       ELSE IF currentPassword = <<>> \/ newPassword = <<>>
       THEN /\ resp' = Response("change", 400, "Current and new password are required")
            /\ UNCHANGED <<users, issued>>
       ELSE IF bearer.role = "student"
       THEN IF ~\E i \in 1..Len(users) :
                    users[i].id = bearer.id /\ users[i].passcode = currentPassword
            THEN /\ resp' = [Response("change", 401, "Current passcode is incorrect")
                                EXCEPT !.db = TRUE]
                 /\ UNCHANGED <<users, issued>>
            ELSE /\ users' = UpdatePasscode(users, bearer.id, newPassword)
                 /\ resp' = [Response("change", 200, "Password changed successfully")
                                EXCEPT !.db = TRUE, !.id = bearer.id,
                                       !.old = currentPassword,
                                       !.new = newPassword]
                 /\ issued' = [issued EXCEPT ![bearer.id] = NULL]
       ELSE \* role admin: SELECT * FROM admins fails, no such table
            /\ resp' = [Response("change", 500, "Internal server error") EXCEPT !.db = TRUE]
            /\ UNCHANGED <<users, issued>>

\* The body the student dashboard posts to /api/change-password
DashboardBody(currentPasscode, newPasscode) ==
    [currentPasscode |-> currentPasscode, newPasscode |-> newPasscode]

\* A field of req.body; a missing field is undefined, falsy like the empty string
BodyField(body, field) == IF field \in DOMAIN body THEN body[field] ELSE <<>>

\* router.post('/change-password') on a request body:
\* const { currentPassword, newPassword } = req.body
ChangePasswordRequest(bearer, body) ==
    ChangePassword(bearer, BodyField(body, "currentPassword"),
                   BodyField(body, "newPassword"))

\* handlePasscodeChange of the student dashboard, once its form is valid
\* (current passcode given, new passcode of 6 characters or more, confirmed):
\* it posts {currentPasscode, newPasscode} with the stored token
handlePasscodeChange(bearer, currentPasscode, newPasscode) ==
    /\ currentPasscode # <<>>
    /\ Len(newPasscode) >= 6
    /\ ChangePasswordRequest(bearer, DashboardBody(currentPasscode, newPasscode))

\* userService.changePasscode
changePasscode(userId, currentPasscode, newPasscode) ==
    /\ impl = "client"
    /\ UNCHANGED impl
    /\ IF ~\E i \in 1..Len(users) :
               /\ users[i].id = userId
               /\ users[i].passcode # NULL
               /\ users[i].passcode = currentPasscode
       THEN /\ resp' = [Response("change", 0, "Current passcode is incorrect")
                           EXCEPT !.db = TRUE]
            /\ UNCHANGED <<users, issued>>
       ELSE /\ users' = UpdatePasscode(users, userId, newPasscode)
            /\ resp' = [Response("change", 1, "Passcode updated successfully")
                           EXCEPT !.db = TRUE, !.id = userId, !.old = currentPasscode,
                                  !.new = newPasscode]
            /\ issued' = [issued EXCEPT ![userId] = NULL]

\* ------------------------------------------------------------------- Next

\* The addresses submitted at sign-up: those of the students and the address
\* of the seeded admin of the implementation in use
SignupMails ==
    MailInputs \cup {IF impl = "backend" THEN BackendAdminMail ELSE ClientAdminMail}

Next ==
    \/ InitDatabase /\ UNCHANGED aux
    \/ initDatabase /\ UNCHANGED aux
    \/ \E n \in Names, r \in BackendRegInputs, e \in SignupMails :
          Signup(n, r, e) /\ UNCHANGED aux
    \/ \E n \in Names, r \in ClientRegInputs, e \in SignupMails :
          signUp(n, r, e) /\ UNCHANGED aux
    \/ \E b \in ApproveBearers, id \in 1..(MaxUsers + 1), r \in RandomDraws, m \in BOOLEAN :
          ConfirmRegistration(b, id, r, m) /\ UNCHANGED aux
    \/ \E id \in 1..(MaxUsers + 1), r \in RandomDraws :
          approveSignup(id, r) /\ UNCHANGED aux
    \/ \E b \in ApproveBearers, id \in 1..(MaxUsers + 1) :
          handleConfirmRegistration(b, id, RandomTypical, TRUE) /\ UNCHANGED aux
    \/ \E b \in ApproveBearers : PendingRegistrations(b) /\ UNCHANGED aux
    \/ getPendingSignups /\ UNCHANGED aux
    \/ \E r \in BackendLoginRegs, p \in BackendCandidates :
          Login(r, p) /\ UNCHANGED aux
    \/ \E r \in ClientLoginRegs, p \in ClientCandidates :
          login(r, p) /\ UNCHANGED aux
    \/ \E u \in {<<>>, <<"a">>}, p \in {<<>>, Admin123} :
          AdminLogin(u, p) /\ UNCHANGED aux
    \/ \E b \in Bearers, c \in BackendCandidates, n \in NewPasscodes :
          ChangePassword(b, c, n) /\ UNCHANGED aux
    \/ \E id \in 1..(MaxUsers + 1), c \in ClientCandidates, n \in NewPasscodes :
          changePasscode(id, c, n) /\ UNCHANGED aux
    \/ \E b \in Bearers, c \in BackendCandidates, n \in NewPasscodes :
          handlePasscodeChange(b, c, n) /\ UNCHANGED aux

Spec == Init /\ [][Next]_vars

\* ================================================================= claims

\* A sign-up step of either implementation
SignupStep(n, r, e) == Signup(n, r, e) \/ signUp(n, r, e)

\* An authorized approval step of either implementation
ApproveStep(id, random, mailOk) ==
    ConfirmRegistration(AdminToken, id, random, mailOk) \/ approveSignup(id, random)

\* The pattern of the specification: NN/xx/xx/NNN with 3 or 4 final digits
SpecRegPattern(r) == MatchRegPattern(r, 2, 4, 3, 4)

\* The same pattern with exactly 3 final digits
ThreeDigitRegPattern(r) == MatchRegPattern(r, 2, 4, 3, 3)

\* local@domain, both parts non-empty
ValidEmail(e) == \E i \in 2..(Len(e) - 1) : e[i] = "@"

\* No row holds the registration number or the address, compared in lower case
Unseen(rows, r, e) ==
    \A i \in 1..Len(rows) :
        /\ ToLowerCase(rows[i].regNumber) # ToLowerCase(r)
        /\ ToLowerCase(rows[i].email) # ToLowerCase(e)

SignupSucceeded(rsp) == rsp.op = "signup" /\ rsp.code \in {201, 1}

\* The error kinds of the specification, as each implementation reports them
AccountAlreadyExists(rsp) ==
    \/ rsp.code = 409 /\ rsp.msg = "Registration number already exists"
    \/ rsp.code = 0 /\ rsp.msg = "Registration number or email already exists"

InvalidInput(rsp) ==
    \/ rsp.code = 400
    \/ rsp.code = 0 /\ rsp.msg = "Invalid registration number format"

NotFound(rsp) ==
    \/ rsp.code = 404
    \/ rsp.code = 0 /\ rsp.msg = "User not found"

InvalidCredentials(rsp) ==
    \/ rsp.code = 401 /\ rsp.msg = "Invalid credentials"
    \/ rsp.code = 0 /\ rsp.msg = "Invalid registration number or passcode"

LoginSucceeded(rsp) == rsp.op = "login" /\ rsp.code \in {200, 1}

ApproveSucceeded(rsp) == rsp.op = "approve" /\ rsp.code \in {200, 1}

\* new is old with one more row, pending and without passcode
CreatedPending(old, new) ==
    /\ Len(new) = Len(old) + 1
    /\ \A i \in 1..Len(old) : new[i] = old[i]
    /\ new[Len(new)].status = "pending"
    /\ new[Len(new)].passcode = NULL

\* The statuses an approval gives: 'confirmed' (back end), 'approved' (data module)
Approved(row) == row.status \in {"confirmed", "approved"}

\* ===================================================== lifecycle scenario

\* The routes on which an admin can ask for a session: the admin page posts to
\* /api/login, the back end also serves /admin/login; the data module has login.
AdminRoutes ==
    IF impl = "backend" THEN {"/login", "/admin/login"} ELSE {"login"}

\* The credential a login response gives its caller: the JWT of the back end,
\* the stored user of the data module
Credential(rsp) ==
    IF rsp.code = 200 THEN Bearer("jwt", rsp.id, rsp.tokenRole)
    ELSE IF rsp.code = 1 THEN Bearer("session", rsp.id, rsp.userRole)
    ELSE NoToken

\* The student submits the sign-up form
StudentSignsUp ==
    /\ life.pc = "start"
    /\ SignupStep(Jane, RegLower, MailLower)
    /\ life' = IF SignupSucceeded(resp')
               THEN [life EXCEPT !.pc = "signedUp", !.sid = resp'.id]
               ELSE life
    /\ UNCHANGED exceptLife

\* The seeded admin asks for a session with the seeded credentials on a route
\* not tried yet
AdminLogsIn(route) ==
    /\ life.pc = "signedUp"
    /\ route \in AdminRoutes \ life.tried
    /\ \/ route = "/login" /\ Login(BackendAdminReg, Admin123)
       \/ route = "/admin/login" /\ AdminLogin(BackendAdminReg, Admin123)
       \/ route = "login" /\ login(ClientAdminReg, Admin123)
    /\ life' = IF Credential(resp').role = "admin"
               THEN [life EXCEPT !.pc = "adminIn", !.token = Credential(resp')]
               ELSE [life EXCEPT !.tried = @ \cup {route}]
    /\ UNCHANGED exceptLife

\* The admin approves the student's registration with the credential obtained
AdminApproves ==
    /\ life.pc = "adminIn"
    /\ \/ ConfirmRegistration(life.token, life.sid, RandomTypical, TRUE)
       \/ approveSignup(life.sid, RandomTypical)
    /\ life' = IF ApproveSucceeded(resp')
               THEN [life EXCEPT !.pc = "approved", !.passcode = resp'.passcode]
               ELSE life
    /\ UNCHANGED exceptLife

\* The student logs in with the passcode received
StudentLogsIn ==
    /\ life.pc = "approved"
    /\ Login(RegLower, life.passcode) \/ login(RegLower, life.passcode)
    /\ life' = IF LoginSucceeded(resp') /\ resp'.id = life.sid
               THEN [life EXCEPT !.pc = "done"]
               ELSE life
    /\ UNCHANGED exceptLife

\* The requests of other visitors meanwhile: sign-ups without a name or with
\* another registration number, logins of unknown accounts, requests without
\* a valid token, a restart of the server
OtherRequests ==
    \/ \E n \in Names, e \in {<<>>, MailUpper} : SignupStep(n, RegShort, e)
    \/ \E r \in {<<>>, RegUpper}, p \in {<<>>, NewPw} : Login(r, p) \/ login(r, p)
    \/ \E u \in {<<>>, <<"a">>} : AdminLogin(u, Admin123)
    \/ \E b \in {NoToken, BadToken} : ChangePassword(b, Admin123, NewPw)
    \/ InitDatabase

LifecycleStep ==
    \/ StudentSignsUp
    \/ \E route \in {"/login", "/admin/login", "login"} : AdminLogsIn(route)
    \/ AdminApproves
    \/ StudentLogsIn

NextLifecycle ==
    \/ LifecycleStep
    \/ OtherRequests /\ UNCHANGED aux

\* The participants keep acting: a step of the scenario that stays possible is
\* taken eventually.
SpecLifecycle == Init /\ [][NextLifecycle]_vars /\ WF_vars(LifecycleStep)

\* ========================================================= approval race

\* The account both approval requests name: the first one signed up
RaceTarget == 2

\* The sign-up that creates the account to approve
RaceSignup ==
    /\ Len(users) = 1
    /\ \E r \in {RegLower, RegUpper}, e \in {MailLower, MailUpper} : SignupStep(Jane, r, e)
    /\ UNCHANGED aux

\* Request c of an admin reaches router.post('/confirm-registration/:id') and
\* awaits its SELECT ... WHERE id = ? AND status = 'pending'
RaceSelect(c) ==
    /\ impl = "backend"
    /\ Len(users) >= RaceTarget
    /\ calls[c].pc = "idle"
    /\ calls' = [calls EXCEPT ![c] =
                    IF users[RaceTarget].status = "pending"
                    THEN [@ EXCEPT !.pc = "selected"]
                    ELSE [@ EXCEPT !.pc = "done", !.code = 404]]
    /\ UNCHANGED <<impl, users, resp, issued, exceptCalls>>

\* Request c generates its passcode and awaits its UPDATE ... WHERE id = ?
RaceUpdate(c, random) ==
    /\ impl = "backend"
    /\ calls[c].pc = "selected"
    /\ users' = UpdateApproved(users, RaceTarget, "confirmed", generatePasscode(random))
    /\ calls' = [calls EXCEPT ![c] =
                    [@ EXCEPT !.pc = "updated", !.passcode = generatePasscode(random)]]
    /\ UNCHANGED <<impl, resp, issued, exceptCalls>>

\* Request c awaits transporter.sendMail and answers
RaceMail(c, mailOk) ==
    /\ impl = "backend"
    /\ calls[c].pc = "updated"
    /\ calls' = [calls EXCEPT ![c] =
                    IF mailOk
                    THEN [@ EXCEPT !.pc = "done", !.code = 200]
                    ELSE [@ EXCEPT !.pc = "done", !.code = 500, !.passcode = NULL]]
    /\ issued' = IF mailOk THEN [issued EXCEPT ![RaceTarget] = calls[c].passcode]
                 ELSE issued
    /\ UNCHANGED <<impl, users, resp, exceptCalls>>

\* Request c to userService.approveSignup: the promise executor runs to its
\* end without yielding
RaceApproveSignup(c, random) ==
    /\ impl = "client"
    /\ Len(users) >= RaceTarget
    /\ calls[c].pc = "idle"
    /\ approveSignup(RaceTarget, random)
    /\ calls' = [calls EXCEPT ![c] =
                    [pc |-> "done", code |-> resp'.code, passcode |-> resp'.passcode]]
    /\ UNCHANGED exceptCalls

NextApproveRace ==
    \/ RaceSignup
    \/ \E c \in Callers : RaceSelect(c)
    \/ \E c \in Callers, r \in RandomDraws : RaceUpdate(c, r)
    \/ \E c \in Callers, m \in BOOLEAN : RaceMail(c, m)
    \/ \E c \in Callers, r \in RandomDraws : RaceApproveSignup(c, r)

SpecApproveRace == Init /\ [][NextApproveRace]_vars

\* Request c reported success / NotFound
CallSucceeded(c) == calls[c].pc = "done" /\ calls[c].code \in {200, 1}

CallNotFound(c) == calls[c].pc = "done" /\ calls[c].code \in {404, 0}

\* ========================================================= server start-up

\* reject(err): a promise that is settled stays as it is
Rejected(promise) == IF promise = "pending" THEN "rejected" ELSE promise

\* resolve()
Resolved(promise) == IF promise = "pending" THEN "resolved" ELSE promise

\* initDatabase: the callback of new sqlite3.Database(DB_PATH), on a new file
\* or on the file of an earlier start; on success createTables hands its
\* queries to db.run
BootOpen(ok, fresh) ==
    /\ impl = "backend"
    /\ boot.stage = "closed"
    /\ IF ok
       THEN /\ boot' = [boot EXCEPT !.stage = "tables", !.waiting = Cardinality(Tables),
                                    !.done = 0, !.fresh = fresh]
            /\ users' = IF fresh THEN <<>> ELSE users
       ELSE /\ boot' = [boot EXCEPT !.stage = "idle", !.promise = Rejected(@)]
            /\ UNCHANGED users
    /\ UNCHANGED <<impl, resp, issued, exceptBoot>>

\* createTables: the callback of one CREATE TABLE IF NOT EXISTS; an error
\* rejects, the last success resolves and seedDefaultData issues its SELECT
BootTable(ok) ==
    /\ boot.stage = "tables"
    /\ boot.waiting > 0
    /\ boot' =
          IF ~ok
          THEN [boot EXCEPT !.waiting = @ - 1, !.promise = Rejected(@),
                            !.stage = IF boot.waiting = 1 THEN "idle" ELSE @]
          ELSE IF boot.done + 1 = Cardinality(Tables)
          THEN [boot EXCEPT !.stage = "adminCheck", !.waiting = 1, !.done = 0]
          ELSE [boot EXCEPT !.waiting = @ - 1, !.done = @ + 1,
                            !.stage = IF boot.waiting = 1 THEN "idle" ELSE @]
    /\ UNCHANGED <<impl, users, resp, issued, exceptBoot>>

\* seedDefaultData: the callback of SELECT id FROM users WHERE role = 'admin'
BootAdminCheck(ok) ==
    /\ boot.stage = "adminCheck"
    /\ boot' =
          IF ~ok
          THEN [boot EXCEPT !.stage = "idle", !.waiting = 0, !.promise = Rejected(@)]
          ELSE IF \E i \in 1..Len(users) : users[i].role = "admin"
          THEN [boot EXCEPT !.stage = "count"]
          ELSE [boot EXCEPT !.stage = "adminInsert"]
    /\ UNCHANGED <<impl, users, resp, issued, exceptBoot>>

\* seedDefaultData: bcrypt.hash and the callback of the INSERT of the admin
BootAdminInsert(ok) ==
    /\ boot.stage = "adminInsert"
    /\ IF ok
       THEN /\ users' = InsertUser(users, <<"S">>, BackendAdminReg, BackendAdminMail,
                                   BcryptHash(Admin123), "admin", "active")
            /\ boot' = [boot EXCEPT !.stage = "count"]
       ELSE /\ boot' = [boot EXCEPT !.stage = "idle", !.waiting = 0,
                                    !.promise = Rejected(@)]
            /\ UNCHANGED users
    /\ UNCHANGED <<impl, resp, issued, exceptBoot>>

\* seedSampleData: the callback of SELECT COUNT(*) FROM materials; a table
\* with rows resolves, an empty one gets the sample materials inserted
BootCount(ok, empty) ==
    /\ boot.stage = "count"
    /\ boot.fresh => empty
    /\ boot' =
          IF ~ok
          THEN [boot EXCEPT !.stage = "idle", !.waiting = 0, !.promise = Rejected(@)]
          ELSE IF ~empty
          THEN [boot EXCEPT !.stage = "idle", !.waiting = 0, !.promise = Resolved(@)]
          ELSE [boot EXCEPT !.stage = "materials", !.waiting = SampleMaterials, !.done = 0]
    /\ UNCHANGED <<impl, users, resp, issued, exceptBoot>>

\* seedSampleData: the callback of one INSERT INTO materials; an error is
\* logged, the last success calls insertSampleEvents
BootMaterial(ok) ==
    /\ boot.stage = "materials"
    /\ boot.waiting > 0
    /\ boot' =
          IF ~ok
          THEN [boot EXCEPT !.waiting = @ - 1, !.logged = TRUE,
                            !.stage = IF boot.waiting = 1 THEN "idle" ELSE @]
          ELSE IF boot.done + 1 = SampleMaterials
          THEN [boot EXCEPT !.stage = "events", !.waiting = SampleEvents, !.done = 0]
          ELSE [boot EXCEPT !.waiting = @ - 1, !.done = @ + 1,
                            !.stage = IF boot.waiting = 1 THEN "idle" ELSE @]
    /\ UNCHANGED <<impl, users, resp, issued, exceptBoot>>

\* insertSampleEvents: the callback of one INSERT INTO events; an error is
\* logged, the last success resolves
BootEvent(ok) ==
    /\ boot.stage = "events"
    /\ boot.waiting > 0
    /\ boot' =
          IF ~ok
          THEN [boot EXCEPT !.waiting = @ - 1, !.logged = TRUE,
                            !.stage = IF boot.waiting = 1 THEN "idle" ELSE @]
          ELSE IF boot.done + 1 = SampleEvents
          THEN [boot EXCEPT !.stage = "idle", !.waiting = 0, !.promise = Resolved(@)]
          ELSE [boot EXCEPT !.waiting = @ - 1, !.done = @ + 1,
                            !.stage = IF boot.waiting = 1 THEN "idle" ELSE @]
    /\ UNCHANGED <<impl, users, resp, issued, exceptBoot>>

\* startServer after await initDatabase(): app.listen, or process.exit(1) in
\* its catch
BootServer ==
    /\ impl = "backend"
    /\ boot.server = "starting"
    /\ boot.promise # "pending"
    /\ boot' = [boot EXCEPT !.server = IF boot.promise = "resolved" THEN "listening"
                                       ELSE "exited"]
    /\ UNCHANGED <<impl, users, resp, issued, exceptBoot>>

\* initDatabase of the data module: createTables and seedDatabase run inside
\* one try; the function returns true, or false from its catch
BootClient(ok) ==
    /\ impl = "client"
    /\ boot.stage = "closed"
    /\ boot' = [boot EXCEPT !.stage = "idle", !.promise = Resolved(@), !.fresh = ok]
    /\ users' = IF ok THEN <<ClientAdminRow(1)>> ELSE users
    /\ UNCHANGED <<impl, resp, issued, exceptBoot>>

NextBoot ==
    \/ \E ok \in BOOLEAN, fresh \in BOOLEAN : BootOpen(ok, fresh)
    \/ \E ok \in BOOLEAN : BootTable(ok)
    \/ \E ok \in BOOLEAN : BootAdminCheck(ok)
    \/ \E ok \in BOOLEAN : BootAdminInsert(ok)
    \/ \E ok \in BOOLEAN, empty \in BOOLEAN : BootCount(ok, empty)
    \/ \E ok \in BOOLEAN : BootMaterial(ok)
    \/ \E ok \in BOOLEAN : BootEvent(ok)
    \/ BootServer
    \/ \E ok \in BOOLEAN : BootClient(ok)

\* Every statement handed to the database gets its callback, and the
\* continuation of a settled promise runs.
SpecBoot == Init /\ [][NextBoot]_vars /\ WF_vars(NextBoot)

\* ========================================================== sign-up race

\* The bodies of the concurrent sign-up requests
RaceRegs == {RegLower, RegUpper}

RaceMails == {MailLower, MailUpper}

\* Request c reaches router.post('/signup') with {Jane, r, e} and its pre-check
\* SELECT * FROM users WHERE regNumber = ? is executed
SignupRaceCheck(c, r, e) ==
    /\ impl = "backend"
    /\ signups[c].pc = "idle"
    /\ signups' = [signups EXCEPT ![c] =
                      IF \E i \in 1..Len(users) : users[i].regNumber = r
                      THEN [pc |-> "done", reg |-> r, email |-> e, code |-> 409]
                      ELSE [pc |-> "checked", reg |-> r, email |-> e, code |-> 0]]
    /\ UNCHANGED <<impl, users, resp, issued, exceptSignups>>

\* The INSERT of request c is executed, under the UNIQUE constraints of the
\* table, and the request answers
SignupRaceInsert(c) ==
    /\ impl = "backend"
    /\ signups[c].pc = "checked"
    /\ IF UniqueViolation(users, signups[c].reg, signups[c].email)
       THEN /\ signups' = [signups EXCEPT ![c] = [@ EXCEPT !.pc = "done", !.code = 500]]
            /\ UNCHANGED users
       ELSE /\ users' = InsertUser(users, Jane, signups[c].reg, signups[c].email,
                                   NULL, "student", "pending")
            /\ signups' = [signups EXCEPT ![c] = [@ EXCEPT !.pc = "done", !.code = 201]]
    /\ UNCHANGED <<impl, resp, issued, exceptSignups>>

\* Request c to userService.signUp: validation and the promise executor with
\* its INSERT run to their end without yielding
SignupRaceClient(c, r, e) ==
    /\ impl = "client"
    /\ signups[c].pc = "idle"
    /\ signUp(Jane, r, e)
    /\ signups' = [signups EXCEPT ![c] =
                      [pc |-> "done", reg |-> r, email |-> e, code |-> resp'.code]]
    /\ UNCHANGED exceptSignups

NextSignupRace ==
    \/ \E c \in Callers, r \in RaceRegs, e \in RaceMails : SignupRaceCheck(c, r, e)
    \/ \E c \in Callers : SignupRaceInsert(c)
    \/ \E c \in Callers, r \in RaceRegs, e \in RaceMails : SignupRaceClient(c, r, e)

SpecSignupRace == Init /\ [][NextSignupRace]_vars

\* ------------------------------------------------------------ login pages

\* String.prototype.trim
Trim(s) ==
    LET kept == {i \in 1..Len(s) : s[i] # " "}
    IN  IF kept = {} THEN <<>>
        ELSE SubSeq(s, CHOOSE i \in kept : \A j \in kept : i <= j,
                       CHOOSE i \in kept : \A j \in kept : j <= i)

\* utils.sanitizeInput: input.trim().replace(/[<>'"&]/g, '')
sanitizeInput(input) ==
    LET dropped(c) == c \in {"<", ">", "'", "\"", "&"}
        keep(c) == ~dropped(c)
    IN  SelectSeq(Trim(input), keep)

\* "24/is/ad/002"
RegAd == <<"2","4","/","i","s","/","a","d","/","0","0","2">>

\* utils.validateAdminRegNumber: /^\d{2}\/is\/ad\/\d{3}$/i on the trimmed,
\* lower-cased input
validateAdminRegNumber(regNumber) ==
    LET normalized == ToLowerCase(Trim(regNumber))
    IN  /\ regNumber # <<>>
        /\ Len(normalized) = 12
        /\ IsDigit(normalized[1]) /\ IsDigit(normalized[2])
        /\ SubSeq(normalized, 3, 9) = <<"/","i","s","/","a","d","/">>
        /\ \A i \in 10..12 : IsDigit(normalized[i])

\* utils.validatePasscode
validatePasscode(passcode) ==
    /\ passcode # <<>>
    /\ Len(Trim(passcode)) >= MinPasscodeLength
    /\ Len(Trim(passcode)) <= MaxPasscodeLength

\* validation.validateForm of the admin login page
validateForm(regNumber, passcode) ==
    /\ Trim(regNumber) # <<>>
    /\ validateAdminRegNumber(Trim(regNumber))
    /\ validatePasscode(passcode)

\* The validation of the login form in handleSubmit of the student page:
\* /^\d{2}\/[A-Z]{2}\/[A-Z]{2}\/\d{3}$/i on the trimmed input
loginFormValid(regNumber, passcode) ==
    /\ Trim(regNumber) # <<>>
    /\ MatchRegPattern(Trim(regNumber), 2, 2, 3, 3)
    /\ Trim(passcode) # <<>>
    /\ Len(passcode) >= MinPasscodeLength

\* 'admin-session' and 'student-session': strings jwt.verify rejects
PlaceholderSession == Bearer("bad", 0, "none")

\* The body fetch delivers for an answer of router.post('/login'): token, and
\* user {id, name, regNumber, email}; a property the body lacks reads as
\* undefined (NoToken for a token, defined = FALSE for an object)
LoginBody(rsp) ==
    [ok |-> rsp.code = 200,
     token |-> IF rsp.code = 200 THEN Bearer("jwt", rsp.id, rsp.tokenRole) ELSE NoToken,
     user |-> [defined |-> rsp.code = 200, role |-> rsp.userRole, token |-> NoToken]]

\* api.login of the admin login page after the fetch: whether it returns the
\* body (it throws for an answer that is not ok and for a user whose role is
\* not 'admin')
ApiLoginReturns(data) ==
    /\ data.ok
    /\ ~(data.user.defined /\ data.user.role # "admin")

\* utils.storeUserSession: the item 'token' after the call; reading the token
\* of an undefined userData throws, which is caught and stores nothing
storeUserSession(stored, userData) ==
    IF ~userData.defined THEN stored
    ELSE IF userData.token # NoToken THEN userData.token
    ELSE PlaceholderSession

\* handlers.handleFormSubmit of the admin login page with api.login
handleFormSubmit(regNumber, passcode) ==
    /\ impl = "backend"
    /\ UNCHANGED exceptSession
    /\ IF ~validateForm(regNumber, passcode)
       THEN /\ UNCHANGED <<impl, users, resp, issued>>
            /\ session' = [session EXCEPT !.page = "admin", !.code = 0, !.served = NoToken]
       ELSE /\ Login(ToLowerCase(Trim(sanitizeInput(regNumber))), Trim(passcode))
            /\ session' =
                 [page |-> "admin",
                  code |-> resp'.code,
                  served |-> LoginBody(resp').token,
                  token |-> IF ApiLoginReturns(LoginBody(resp'))
                            THEN storeUserSession(session.token, LoginBody(resp').user)
                            ELSE session.token]

\* handleSubmit of the student page for the login form
handleSubmit(regNumber, passcode) ==
    /\ impl = "backend"
    /\ UNCHANGED exceptSession
    /\ IF ~loginFormValid(regNumber, passcode)
       THEN /\ UNCHANGED <<impl, users, resp, issued>>
            /\ session' = [session EXCEPT !.page = "student", !.code = 0, !.served = NoToken]
       ELSE /\ Login(ToLowerCase(regNumber), passcode)
            /\ session' =
                 [page |-> "student",
                  code |-> resp'.code,
                  served |-> LoginBody(resp').token,
                  token |-> IF ~LoginBody(resp').ok THEN session.token
                            ELSE IF LoginBody(resp').token # NoToken
                            THEN LoginBody(resp').token
                            ELSE PlaceholderSession]

\* The registration numbers and passcodes typed into the login pages
PageRegs == {RegLower, RegAd, RegShort}

PagePasscodes == {generatePasscode(RandomTypical), NewPw, ShortPw}

\* Accounts are created and approved through the routes, then the pages log in
NextLoginPage ==
    \/ \E r \in {RegLower, RegAd}, e \in {MailLower, MailUpper} :
          Signup(Jane, r, e) /\ UNCHANGED aux
    \/ \E id \in 2..MaxUsers :
          ConfirmRegistration(AdminToken, id, RandomTypical, TRUE) /\ UNCHANGED aux
    \/ \E r \in PageRegs, p \in PagePasscodes : handleSubmit(r, p)
    \/ \E r \in PageRegs, p \in PagePasscodes : handleFormSubmit(r, p)

SpecLoginPage == Init /\ [][NextLoginPage]_vars

\* Request c reported success
SignupCallSucceeded(c) == signups[c].pc = "done" /\ signups[c].code \in {201, 1}

\* C1 as stated: every sign-up with a non-empty name, a registration number of
\* the specification's pattern (3 or 4 final digits) and a well-formed address,
\* neither of them in the store yet, succeeds and creates a pending account
\* without passcode.
C1_AsStated ==
    [][resp'.op = "signup" => \A n \in Names, r \in RegInputs, e \in MailInputs :
          (/\ n # <<>> /\ SpecRegPattern(r) /\ ValidEmail(e)
           /\ SignupStep(n, r, e)
           /\ Unseen(users, r, e))
          => (SignupSucceeded(resp') /\ CreatedPending(users, users'))]_vars

\* The registration numbers with exactly 3 final digits and the well-formed
\* addresses among the inputs
ThreeDigitRegs == {r \in RegInputs : ThreeDigitRegPattern(r)}

WellFormedMails == {e \in MailInputs : ValidEmail(e)}

\* C1 amended: every sign-up with a non-empty name, a registration number of
\* the form NN/xx/xx/NNN with exactly 3 final digits and a well-formed address,
\* neither of them in the store yet (compared in lower case), succeeds and
\* creates a pending account without passcode.
C1_SignupCreatesPending ==
    [][resp'.op = "signup" =>
          \A n \in Names \ {<<>>}, r \in ThreeDigitRegs, e \in WellFormedMails :
              (SignupStep(n, r, e) /\ Unseen(users, r, e))
              => (SignupSucceeded(resp') /\ CreatedPending(users, users'))]_vars

\* C1 witness: a sign-up has just succeeded and its account is pending, no passcode
C1_Witness ==
    /\ SignupSucceeded(resp)
    /\ resp.id = Len(users)
    /\ users[resp.id].status = "pending"
    /\ users[resp.id].passcode = NULL
    /\ ThreeDigitRegPattern(users[resp.id].regNumber)

\* C2: in every reachable state an account has no passcode (NULL) if and only
\* if its status is pending, the seeded admin included.
C2_NullSecretIffPending ==
    \A i \in 1..Len(users) :
        (users[i].passcode = NULL) <=> (users[i].status = "pending")

\* C2 witness: a pending account without passcode beside an approved account
\* whose owner has since changed the passcode
C2_Witness ==
    \E i, j \in 1..Len(users) :
        /\ users[i].status = "pending" /\ users[i].passcode = NULL
        /\ Approved(users[j]) /\ users[j].passcode = NewPw
        /\ resp.op = "change"

\* C3: a login that succeeds is the login of an approved account, never of a
\* pending one.
C3_LoginOnlyApproved ==
    LoginSucceeded(resp) =>
        /\ resp.id \in 1..Len(users)
        /\ users[resp.id].status # "pending"
        /\ users[resp.id].passcode # NULL

\* C3 witness: a login has succeeded while another account is still pending
C3_Witness ==
    /\ LoginSucceeded(resp)
    /\ \E i \in 1..Len(users) : users[i].status = "pending"

\* C4 as stated: while issued[id] = p (approval handed out p and the passcode
\* was not changed since), a login with the account's registration number and
\* p succeeds, and with any other string q it fails with InvalidCredentials.
C4_LoginWithIssuedPasscode ==
    [][resp'.op = "login" => \A id \in 1..Len(users), q \in BackendCandidates \cup ClientCandidates :
          (/\ issued[id] # NULL
           /\ (Login(users[id].regNumber, q) \/ login(users[id].regNumber, q)))
          => IF q = issued[id]
             THEN LoginSucceeded(resp') /\ resp'.id = id
             ELSE InvalidCredentials(resp')]_vars

\* C5 as stated: from a freshly initialized store the lifecycle can be walked
\* with the system's own operations; once the student has signed up, the
\* seeded admin obtains an admin-role credential on one of the routes the
\* system offers, so the scenario never stands at signedUp with every route
\* tried and refused.
C5_AdminObtainsCredential ==
    ~(life.pc = "signedUp" /\ life.tried = AdminRoutes)

\* C5, the same scenario as a progress property: under SpecLifecycle the
\* student eventually logs in.
C5_LifecycleCompletes == <>(life.pc = "done")

\* C5, behind the refusal: whatever is requested, the back end never answers
\* with a credential of role admin.
C5_BackendNeverIssuesAdmin ==
    impl = "backend" => (resp.tokenRole # "admin" /\ resp.userRole # "admin")

\* C6 as stated: an authorized approve of an id that does not exist, or of an
\* account that is not pending, fails with NotFound and changes no account.
C6_ApproveNotFound ==
    [][resp'.op = "approve" => \A id \in 1..(MaxUsers + 1), r \in RandomDraws, m \in BOOLEAN :
          (/\ ApproveStep(id, r, m)
           /\ (id > Len(users) \/ users[id].status # "pending"))
          => (NotFound(resp') /\ users' = users)]_vars

\* C7 as stated: when two approval requests for the same pending account have
\* both answered (no mail failure), exactly one reported success and the other
\* NotFound, and the stored passcode is the one of the successful request.
C7_ExactlyOneApproval ==
    (\A c \in Callers : calls[c].pc = "done" /\ calls[c].code # 500) =>
        \E w \in Callers :
            /\ CallSucceeded(w)
            /\ \A c \in Callers \ {w} : CallNotFound(c)
            /\ users[RaceTarget].passcode = calls[w].passcode

\* C7 on the back end alone, where the requests interleave at their awaits
C7_BackendExactlyOneApproval == impl = "backend" => C7_ExactlyOneApproval

\* C8 as stated: once an account was created by sign-up, a sign-up (with a
\* name and a well-formed address) whose registration number equals that
\* account's up to letter case fails with AccountAlreadyExists and creates no
\* account.
C8_DuplicateRegNumber ==
    [][resp'.op = "signup" => \A n \in Names, r \in RegInputs, e \in MailInputs :
          (/\ n # <<>> /\ ValidEmail(e)
           /\ SignupStep(n, r, e)
           /\ \E i \in 2..Len(users) :
                 ToLowerCase(users[i].regNumber) = ToLowerCase(r))
          => (AccountAlreadyExists(resp') /\ users' = users)]_vars

\* C9 as stated: no two accounts share a registration number, and no two share
\* an address, compared in lower case.
C9_NormalizedUnique ==
    \A i, j \in 1..Len(users) :
        i # j =>
            /\ ToLowerCase(users[i].regNumber) # ToLowerCase(users[j].regNumber)
            /\ ToLowerCase(users[i].email) # ToLowerCase(users[j].email)

\* C10 as stated: a sign-up whose registration number does not match the
\* pattern is rejected with InvalidInput without any statement on the store.
C10_BadRegNumberRejected ==
    [][resp'.op = "signup" => \A n \in Names, r \in RegInputs, e \in MailInputs :
          (~SpecRegPattern(r) /\ SignupStep(n, r, e))
          => (InvalidInput(resp') /\ ~resp'.db /\ users' = users)]_vars

\* A login step of either implementation
LoginStep(r, p) == Login(r, p) \/ login(r, p)

\* The passcodes tried at login in either implementation
Candidates == BackendCandidates \cup ClientCandidates

\* The accounts a registration number names, up to letter case
Named(rows, r) ==
    {i \in 1..Len(rows) : ToLowerCase(rows[i].regNumber) = ToLowerCase(r)}

\* The three failing cases of a login: an account named is active and p is the
\* passcode of no account named; no account is named; every account named is
\* pending
WrongPasscodeCase(rows, r, p) ==
    /\ \E i \in Named(rows, r) : rows[i].status # "pending"
    /\ \A i \in Named(rows, r) : rows[i].passcode # p

UnknownCase(rows, r) == Named(rows, r) = {}

PendingCase(rows, r) ==
    /\ Named(rows, r) # {}
    /\ \A i \in Named(rows, r) : rows[i].status = "pending"

C12_CaseInsensitiveLogin ==
    [][resp'.op = "login" => \A r \in {resp'.reg}, p \in Candidates \ {<<>>} :
          (/\ LoginStep(r, p)
           /\ \E i \in Named(users, r) :
                 i >= 2 /\ Approved(users[i]) /\ users[i].passcode = p)
          => (LoginSucceeded(resp') /\ resp'.id \in Named(users, r))]_vars

\* c verifies against the passcode stored for account id: equal to it, or its
\* plaintext where the store holds a hash
Verifies(rows, id, c) ==
    /\ id \in 1..Len(rows)
    /\ rows[id].passcode # NULL
    /\ (rows[id].passcode = c \/ BcryptCompare(c, rows[id].passcode))

\* The refusal of a change of passcode for a wrong current passcode
ChangeRefused(rsp) ==
    /\ rsp.op = "change"
    /\ rsp.code \in {401, 0}
    /\ rsp.msg = "Current passcode is incorrect"

ChangeSucceeded(rsp) == rsp.op = "change" /\ rsp.code \in {200, 1}

\* C13 as stated: a change of passcode requested for an account (by its token
\* on the back end, by its id in the data module) with both fields given and a
\* current passcode that does not verify is refused with InvalidCredentials
\* and leaves every stored passcode unchanged.
C13_WrongCurrentRefused ==
    [][(resp'.op = "change" /\ ~(ChangeRefused(resp') /\ users' = users)) =>
          /\ \A b \in Bearers, c \in BackendCandidates \ {<<>>}, n \in NewPasscodes \ {<<>>} :
                (b.kind = "jwt" /\ ~Verifies(users, b.id, c) /\ ChangePassword(b, c, n))
                => (ChangeRefused(resp') /\ users' = users)
          /\ \A id \in 1..MaxUsers, c \in ClientCandidates, n \in NewPasscodes :
                (~Verifies(users, id, c) /\ changePasscode(id, c, n))
                => (ChangeRefused(resp') /\ users' = users)]_vars

\* C13 for the accounts of students: the same with a student token on the back
\* end, and as stated in the data module.
C13_StudentWrongCurrentRefused ==
    [][(resp'.op = "change" /\ ~(ChangeRefused(resp') /\ users' = users)) =>
          /\ \A b \in Bearers, c \in BackendCandidates \ {<<>>}, n \in NewPasscodes \ {<<>>} :
                (b.role = "student" /\ ~Verifies(users, b.id, c) /\ ChangePassword(b, c, n))
                => (ChangeRefused(resp') /\ users' = users)
          /\ \A id \in 1..MaxUsers, c \in ClientCandidates, n \in NewPasscodes :
                (~Verifies(users, id, c) /\ changePasscode(id, c, n))
                => (ChangeRefused(resp') /\ users' = users)]_vars

\* C14 as stated: a change of passcode with the current passcode of the account
\* and a new one shorter than 6 characters does not succeed and leaves the
\* stored passcodes unchanged.
C14_ShortNewRefused ==
    [][(resp'.op = "change" /\ ChangeSucceeded(resp')) =>
          /\ \A b \in Bearers, c \in BackendCandidates, n \in NewPasscodes :
                (/\ Len(n) < MinPasscodeLength
                 /\ b.kind = "jwt" /\ Verifies(users, b.id, c)
                 /\ ChangePassword(b, c, n))
                => (~ChangeSucceeded(resp') /\ users' = users)
          /\ \A id \in 1..MaxUsers, c \in ClientCandidates, n \in NewPasscodes :
                (/\ Len(n) < MinPasscodeLength
                 /\ Verifies(users, id, c)
                 /\ changePasscode(id, c, n))
                => (~ChangeSucceeded(resp') /\ users' = users)]_vars

\* A successful change of passcode with valid inputs has just been answered:
\* the new passcode has at least 6 characters and differs from the old one
ValidChangeDone ==
    /\ ChangeSucceeded(resp)
    /\ resp.id \in 1..Len(users)
    /\ Len(resp.new) >= MinPasscodeLength
    /\ resp.new # resp.old

\* C15: a login that follows a successful change of passcode with valid
\* inputs and names the account by its registration number fails with the old
\* passcode and succeeds, as that account, with the new one.
C15_LoginAfterChange ==
    [][(ValidChangeDone /\ resp'.op = "login") =>
          \A p \in Candidates :
              LoginStep(users[resp.id].regNumber, p) =>
                  /\ p = resp.old => ~LoginSucceeded(resp')
                  /\ p = resp.new =>
                         (LoginSucceeded(resp') /\ resp'.id = resp.id)]_vars

\* C15 witness: a student's change from the passcode handed out at approval to
\* a new one of 6 characters has succeeded
C15_Witness ==
    /\ ValidChangeDone
    /\ resp.id >= 2
    /\ resp.new = NewPw

\* The approval of a pending account by an admin during which the mail cannot
\* be sent
MailFailsStep(id, r) ==
    /\ id \in 1..Len(users)
    /\ users[id].status = "pending"
    /\ ConfirmRegistration(AdminToken, id, r, FALSE)

\* C16: when the mail cannot be sent during the approval of a pending account,
\* the account is active after the operation and holds the passcode that the
\* approval generated; no other account changed.
C16_MailFailureKeepsApproval ==
    [][resp'.op = "approve" => \A id \in 1..MaxUsers, r \in RandomDraws :
          MailFailsStep(id, r) =>
              /\ Len(users') = Len(users)
              /\ Approved(users'[id])
              /\ users'[id].passcode = generatePasscode(r)
              /\ \A j \in 1..Len(users) : j # id => users'[j] = users[j]]_vars

\* C16 witness: an approval has ended with the mail failure reported and the
\* account is active with a passcode
C16_Witness ==
    /\ resp.op = "approve" /\ resp.code = 500
    /\ resp.id \in 1..Len(users)
    /\ Approved(users[resp.id])
    /\ users[resp.id].passcode # NULL

\* C17 as stated: when the mail cannot be sent during the approval of a pending
\* account, the approval still reports success to its caller.
C17_MailFailureReportsSuccess ==
    [][resp'.op = "approve" => \A id \in 1..MaxUsers, r \in RandomDraws :
          MailFailsStep(id, r) => ApproveSucceeded(resp')]_vars

\* C18 as stated: the passcode handed out by an approval, or chosen in a
\* change, is never what the account's row stores; the row holds a one-way
\* hash of it.
C18_NoPlaintextStored ==
    /\ (ApproveSucceeded(resp) /\ resp.id \in 1..Len(users)) =>
           users[resp.id].passcode # resp.passcode
    /\ (ChangeSucceeded(resp) /\ resp.id \in 1..Len(users)) =>
           users[resp.id].passcode # resp.new

\* The accounts with role admin
Admins(rows) == {i \in 1..Len(rows) : rows[i].role = "admin"}

\* C19: in every state, after the first initialization, repeated
\* initializations and any sign-up, approval, login and passcode change, exactly
\* one account has role admin.
C19_ExactlyOneAdmin == Cardinality(Admins(users)) = 1

\* C19 witness: the database has been initialized again after accounts were
\* created and one of them approved, and one admin exists
C19_Witness ==
    /\ resp.op = "init" /\ resp.db
    /\ \E i \in 1..Len(users) : users[i].role = "student" /\ Approved(users[i])
    /\ Cardinality(Admins(users)) = 1

\* The step keeps account i with its status, or takes it from pending to active
\* in an approval; only an account that is still pending may be gone after it
StatusStepAllowed(i) ==
    IF i <= Len(users')
    THEN \/ users'[i].status = users[i].status
         \/ /\ users[i].status = "pending"
            /\ Approved(users'[i])
            /\ resp'.op = "approve"
    ELSE users[i].status = "pending"

\* C20 as stated: in every step every account keeps its status, or goes from
\* pending to active in an approval; an active account is active in every
\* later state.
C20_OnlyPendingToActive ==
    [][\A i \in 1..Len(users) : StatusStepAllowed(i)]_vars

\* C20, within one database: every step other than the data module's
\* initialization keeps every account and its status, or takes it from pending
\* to active in an approval.
C20_OnlyPendingToActiveInOneDatabase ==
    [][(impl = "client" /\ resp'.op = "init") \/
          \A i \in 1..Len(users) : StatusStepAllowed(i)]_vars

\* A request to list the pending registrations or to approve one
AdminRequest(b) ==
    \/ resp'.op = "list" /\ PendingRegistrations(b)
    \/ /\ resp'.op = "approve"
       /\ \E id \in 1..(MaxUsers + 1), r \in RandomDraws, m \in BOOLEAN :
             ConfirmRegistration(b, id, r, m)

C22_DuplicateEmail ==
    [][resp'.op = "signup" => \A n \in Names, r \in RegInputs, e \in SignupMails :
          (/\ n # <<>> /\ validateRegNumber(r)
           /\ SignupStep(n, r, e)
           /\ \E i \in 1..Len(users) : users[i].email = e
           /\ \A i \in 1..Len(users) :
                 ToLowerCase(users[i].regNumber) # ToLowerCase(r))
          => (AccountAlreadyExists(resp') /\ users' = users)]_vars

\* C22, data module: the same sign-up through userService.signUp is rejected
\* with 'Registration number or email already exists' and creates no account.
C22_ClientDuplicateEmail ==
    [][(resp'.op = "signup" /\ impl = "client") =>
          \A n \in Names, r \in RegInputs, e \in SignupMails :
              (/\ n # <<>> /\ validateRegNumber(r)
               /\ SignupStep(n, r, e)
               /\ \E i \in 1..Len(users) : users[i].email = e
               /\ \A i \in 1..Len(users) :
                     ToLowerCase(users[i].regNumber) # ToLowerCase(r))
              => (AccountAlreadyExists(resp') /\ users' = users)]_vars

\* The accounts holding the registration number / the address
WithReg(rows, r) == {i \in 1..Len(rows) : rows[i].regNumber = r}

WithEmail(rows, e) == {i \in 1..Len(rows) : rows[i].email = e}

\* C23: of two concurrent sign-up requests with the same registration number,
\* or with the same address, at most one reports success, and at most one
\* account holds that registration number or that address, in every state of
\* every interleaving of their pre-checks and inserts.
C23_ConcurrentSignupOnce ==
    \A c, d \in Callers :
        (c # d /\ signups[c].pc # "idle" /\ signups[d].pc # "idle") =>
            /\ signups[c].reg = signups[d].reg =>
                   /\ ~(SignupCallSucceeded(c) /\ SignupCallSucceeded(d))
                   /\ Cardinality(WithReg(users, signups[c].reg)) <= 1
            /\ signups[c].email = signups[d].email =>
                   /\ ~(SignupCallSucceeded(c) /\ SignupCallSucceeded(d))
                   /\ Cardinality(WithEmail(users, signups[c].email)) <= 1

\* C23 witness: two requests with the same registration number both passed the
\* pre-check; one created the account and the other was stopped by the
\* constraint at its INSERT
C23_Witness ==
    \E c, d \in Callers :
        /\ c # d
        /\ signups[c].reg = signups[d].reg
        /\ signups[c].pc = "done" /\ signups[c].code = 201
        /\ signups[d].pc = "done" /\ signups[d].code = 500
        /\ Cardinality(WithReg(users, signups[c].reg)) = 1

\* The role a successful login hands to its caller: the role of the user
\* object, or the role claim of the token when the user object carries none
ReturnedRole(rsp) ==
    IF rsp.userRole \in {"none", "undefined"} THEN rsp.tokenRole ELSE rsp.userRole

\* The registration number the implementation in use seeds its admin with
SeededAdminReg == IF impl = "backend" THEN BackendAdminReg ELSE ClientAdminReg

\* C24, first part: a successful login returns the id of an account and the
\* role stored in its row.
C24_ReturnedRoleIsStored ==
    LoginSucceeded(resp) =>
        /\ resp.id \in 1..Len(users)
        /\ ReturnedRole(resp) = users[resp.id].role

\* C24 as stated: a successful login returns the id of an account and the role
\* stored in its row, and the login of the seeded admin with its seeded
\* registration number and its secret succeeds with role admin.
C24_LoginReturnsRole ==
    [][resp'.op = "login" =>
          /\ LoginSucceeded(resp') =>
                 /\ resp'.id \in 1..Len(users)
                 /\ ReturnedRole(resp') = users[resp'.id].role
          /\ (LoginStep(SeededAdminReg, Admin123) /\ Verifies(users, 1, Admin123)) =>
                 /\ LoginSucceeded(resp')
                 /\ resp'.id = 1
                 /\ ReturnedRole(resp') = "admin"]_vars

\* The step leaves the secret of the active account i as it is, or replaces it
\* in a successful change of passcode of account i that was given its current
\* secret
SecretStepAllowed(i) ==
    \/ users[i].status = "pending"
    \/ i <= Len(users') /\ users'[i].passcode = users[i].passcode
    \/ /\ i <= Len(users')
       /\ ChangeSucceeded(resp') /\ resp'.id = i
       /\ Verifies(users, i, resp'.old)
       /\ users'[i].passcode = resp'.new

\* C25 as stated: the stored secret of an active account changes only in a
\* successful change of passcode that verified its current secret; no approval
\* of an active account replaces it.
C25_SecretSetOnce ==
    [][\A i \in 1..Len(users) : SecretStepAllowed(i)]_vars

\* C25 on the back end, whose approval selects the account WHERE status =
\* 'pending' before it updates
C25_BackendSecretSetOnce ==
    [][impl = "backend" => \A i \in 1..Len(users) : SecretStepAllowed(i)]_vars

\* Upper-case letters, lower-case letters and digits
IsAlphanumeric(c) == IsLetter(c) \/ IsDigit(c)

\* C26 as stated: the passcode an approval generated is 8 to 10 characters
\* long and every character of it is a letter or a digit.
C26_PasscodeShape ==
    ApproveSucceeded(resp) =>
        /\ Len(resp.passcode) \in 8..10
        /\ \A k \in 1..Len(resp.passcode) : IsAlphanumeric(resp.passcode[k])

\* C26 for the typical draw alone (a fraction of ten or more base-36 digits):
\* still violated, by the back end's six characters.
C26_TypicalPasscodeShape ==
    (ApproveSucceeded(resp) /\
        resp.passcode \in {generatePasscode(RandomTypical), clientPasscode(RandomTypical)}) =>
        /\ Len(resp.passcode) \in 8..10
        /\ \A k \in 1..Len(resp.passcode) : IsAlphanumeric(resp.passcode[k])

\* C27 as stated: a change-password request of the student dashboard, with the
\* token of an active student, the account's current passcode in
\* currentPasscode and a new passcode of six characters or more in newPasscode,
\* succeeds and replaces the stored secret.
C27_DashboardChangeSucceeds ==
    [][resp'.op = "change" =>
          \A b \in Bearers, c \in BackendCandidates, n \in NewPasscodes :
              (/\ b.role = "student" /\ b.id \in 1..Len(users)
               /\ Approved(users[b.id])
               /\ users[b.id].passcode = c
               /\ handlePasscodeChange(b, c, n))
              => (/\ ChangeSucceeded(resp')
                  /\ users'[b.id].passcode = n)]_vars

\* C27, the same request with the field names the route reads
\* (currentPassword, newPassword) succeeds and replaces the stored secret.
C27_RouteFieldsChangeSucceeds ==
    [][resp'.op = "change" =>
          \A b \in Bearers, c \in BackendCandidates, n \in NewPasscodes :
              (/\ c # <<>> /\ Len(n) >= 6
               /\ b.role = "student" /\ b.id \in 1..Len(users)
               /\ Approved(users[b.id])
               /\ users[b.id].passcode = c
               /\ ChangePasswordRequest(b, [currentPassword |-> c, newPassword |-> n]))
              => (/\ ChangeSucceeded(resp')
                  /\ users'[b.id].passcode = n)]_vars

\* C28 as stated: the admin dashboard's confirm request, with an admin's token
\* and the id of a pending account in the body, makes the account active, as
\* the request with the id in the path does.
C28_BodyConfirmApproves ==
    [][resp'.op = "approve" =>
          \A id \in 1..Len(users), r \in RandomDraws, m \in BOOLEAN :
              (/\ users[id].status = "pending"
               /\ handleConfirmRegistration(AdminToken, id, r, m))
              => Approved(users'[id])]_vars

\* C28, the request with the id in the path: the pending account becomes
\* active.
C28_PathConfirmApproves ==
    [][resp'.op = "approve" =>
          \A id \in 1..Len(users), r \in RandomDraws, m \in BOOLEAN :
              (/\ users[id].status = "pending"
               /\ PostConfirmRegistration(<<"confirm-registration", id>>, AdminToken,
                                          <<>>, r, m))
              => Approved(users'[id])]_vars

\* C29 as stated, as a property of states: when no statement of initDatabase
\* is in flight any more, the promise it returned is resolved or rejected.
C29_SettledWhenIdle == boot.stage = "idle" => boot.promise # "pending"

\* C29 as stated: the promise initDatabase returned is eventually resolved or
\* rejected.
C29_EventuallySettles == <>(boot.promise # "pending")

\* C29, the start-ups in which every sample insert succeeds: the promise is
\* settled once no statement is in flight.
C29_SettledUnlessSampleInsertFailed ==
    (boot.stage = "idle" /\ ~boot.logged) => boot.promise # "pending"

C30_StudentPageStoresIssued ==
    (session.page = "student" /\ session.code = 200) =>
        /\ session.token = session.served
        /\ authenticateToken(session.token) = 0

\* A login through the student page was answered with 200
C30_StudentPageLoggedIn ==
    session.page = "student" /\ session.code = 200 /\ session.token.kind = "jwt"

\* C30, the admin page: api.login refuses every answer of /login (its user has
\* no role), so no page ever stores a placeholder; the user object the admin
\* page would hand to storeUserSession carries no token, for which
\* storeUserSession stores the placeholder.
C30_AdminPageStoresNothing ==
    /\ session.token # PlaceholderSession
    /\ (resp.op = "login" /\ resp.code = 200) =>
           storeUserSession(NoToken, LoginBody(resp).user) = PlaceholderSession

====
